---------------------------- MODULE Spec2Model ----------------------------
(***************************************************************************)
(* Nearest-feature analysis dialog (src/Nearest_Analysis.py) and its       *)
(* launcher (src/Nearest_Analysis_dialog.py) as a state machine.           *)
(*                                                                         *)
(* Numbers.  Planar coordinates and distances are integers (metres of      *)
(* EPSG:29903); geographic coordinates are integers in microdegrees.       *)
(* Angles are integers in millidegrees: the float  a  of the code is the   *)
(* integer floor(1000*a).  Sector limits (multiples of 22.5 deg) and the   *)
(* modulus 360 are whole numbers of millidegrees, so // and % act on the   *)
(* floor exactly as they act on the float, for every angle that is not    *)
(* within 1e-13 deg of a whole millidegree from below.                     *)
(***************************************************************************)
EXTENDS Integers, Sequences, FiniteSets, TLC

\* ---------------------------------------------------------------- bounds
\* Most features the remote service holds (length of a served collection).
MaxFeatures == 3

\* Largest half side, in units of 500 m, of the squares handed to the
\* coordinate normalizer.
MaxHalfSide == 36

\* ------------------------------------------------------ program constants
TargetEpsg == 29903
AssumedEpsg == 4326
BufferRadius == 100000
SectorWidth == 45000
HalfSector == 22500
FullTurn == 360000

\* Column names written by run_analysis.
COL_DIST == "Distance_m"
COL_DEG == "Direction (°)"
COL_DIR == "Direction"
COL_GEOM == "geometry"

\* ------------------------------------------------------------- arithmetic
Abs(n) == IF n < 0 THEN -n ELSE n

Min2(a, b) == IF a <= b THEN a ELSE b

Max2(a, b) == IF a >= b THEN a ELSE b

\* floor(sqrt(n)) by bisection; lo*lo <= n < hi*hi throughout.
RECURSIVE SqrtBetween(_, _, _)
SqrtBetween(n, lo, hi) ==
    IF hi - lo <= 1 THEN lo
    ELSE LET mid == (lo + hi) \div 2
         IN IF mid * mid <= n THEN SqrtBetween(n, mid, hi)
                              ELSE SqrtBetween(n, lo, mid)

ISqrt(n) == SqrtBetween(n, 0, 46341)

\* math.hypot / shapely distance between two points, in whole metres
\* (exact when the offset is axis-parallel or a Pythagorean triple).
Hypot(dx, dy) ==
    IF dx = 0 THEN Abs(dy)
    ELSE IF dy = 0 THEN Abs(dx)
    ELSE ISqrt(dx * dx + dy * dy)

\* ---------------------------------------------------------------- angles
\* floor(1000 * degrees(atan(a/b))) for 0 < a <= b, tabulated from
\* math.atan2 for the slopes the catalogue of geometries produces.
AtanTable(a, b) ==
    CASE a = b -> 45000
      [] b = 500 * a -> 114
      [] b = 20000 * a -> 2
      [] a = 8283 /\ b = 20000 -> 22496

\* floor(-t) for the float whose floor is t; only slope 1 is a whole number.
FloorNeg(t, exact) == IF exact THEN -t ELSE -t - 1

\* Angle of the offset (a, b), a, b > 0, measured from the +y axis.
ThetaMilli(a, b) ==
    IF a <= b THEN AtanTable(a, b)
    ELSE 90000 + FloorNeg(AtanTable(b, a), FALSE)

\* math.degrees(math.atan2(dx, dy)): in (-180, 180], 0 along +y (north),
\* positive towards +x (east).
Atan2Milli(dx, dy) ==
    CASE dx = 0 /\ dy >= 0 -> 0
      [] dx = 0 /\ dy < 0 -> 180000
      [] dy = 0 /\ dx > 0 -> 90000
      [] dy = 0 /\ dx < 0 -> -90000
      [] dx > 0 /\ dy > 0 -> ThetaMilli(dx, dy)
      [] dx > 0 /\ dy < 0 -> 180000 + FloorNeg(ThetaMilli(dx, -dy), dx = -dy)
      [] dx < 0 /\ dy > 0 -> FloorNeg(ThetaMilli(-dx, dy), -dx = dy)
      [] dx < 0 /\ dy < 0 -> ThetaMilli(-dx, -dy) - 180000

\* Mutant of azimuth_geographic: the conventional atan2(dy, dx), which
\* measures anticlockwise from east.
azimuth_from_east(p1, p2) ==
    LET dx == p2[1] - p1[1]
        dy == p2[2] - p1[2]
        angle_deg == Atan2Milli(dy, dx)
    IN (angle_deg + FullTurn) % FullTurn

\* azimuth_geographic(p1, p2): (angle_deg + 360) % 360.
azimuth_geographic(p1, p2) ==
    LET dx == p2[1] - p1[1]
        dy == p2[2] - p1[2]
        angle_deg == Atan2Milli(dx, dy)
    IN (angle_deg + FullTurn) % FullTurn

dirs8 == <<"N", "NE", "E", "SE", "S", "SW", "W", "NW">>

\* Mutant of azimuth_to_dir: sectors that start, instead of being centred,
\* on the compass points.
azimuth_to_dir_uncentred(deg) ==
    LET idx == (deg \div SectorWidth) % 8
    IN dirs8[idx + 1]

\* azimuth_to_dir(deg): int((deg + 22.5) // 45) % 8.
azimuth_to_dir(deg) ==
    LET idx == ((deg + HalfSector) \div SectorWidth) % 8
    IN dirs8[idx + 1]

\* round(angle, 2): the float is at or above its floor in millidegrees, so
\* a third decimal of 5 or more rounds up.  Result in millidegrees.
Round2(angle) == ((angle + 5) \div 10) * 10

\* -------------------------------------------------------------- geometry
\* A point is <<x, y>>; a polygon is an axis-parallel rectangle
\* [minx, miny, maxx, maxy].
Clamp(v, lo, hi) == Min2(Max2(v, lo), hi)

Inside(p, r) ==
    /\ r.minx < p[1] /\ p[1] < r.maxx
    /\ r.miny < p[2] /\ p[2] < r.maxy

\* Point of the filled rectangle nearest to p.
NearestOnRect(p, r) == <<Clamp(p[1], r.minx, r.maxx), Clamp(p[2], r.miny, r.maxy)>>

\* nearest_points(geom, app_union.boundary)[1]: the point of the boundary
\* nearest to p.  For p inside, the nearest of the four projections; the
\* first of equally near edges in the order west, east, south, north.
NearestOnBoundary(p, r) ==
    IF ~Inside(p, r) THEN NearestOnRect(p, r)
    ELSE LET w == p[1] - r.minx
             e == r.maxx - p[1]
             s == p[2] - r.miny
             n == r.maxy - p[2]
             m == Min2(Min2(w, e), Min2(s, n))
         IN CASE m = w -> <<r.minx, p[2]>>
              [] m = e -> <<r.maxx, p[2]>>
              [] m = s -> <<p[1], r.miny>>
              [] OTHER -> <<p[1], r.maxy>>

\* geom.distance(pt)
Distance(p, q) == Hypot(p[1] - q[1], p[2] - q[2])

\* app_union.centroid
Centroid(r) == <<(r.minx + r.maxx) \div 2, (r.miny + r.maxy) \div 2>>

\* geometry.intersects(union.buffer(100000)): boundary-inclusive.
IntersectsBuffer(p, r) == Distance(p, NearestOnRect(p, r)) <= BufferRadius

\* buffer_geom.bounds
BufferBounds(r) ==
    [minx |-> r.minx - BufferRadius, miny |-> r.miny - BufferRadius,
     maxx |-> r.maxx + BufferRadius, maxy |-> r.maxy + BufferRadius]

\* esriSpatialRelIntersects against the envelope, as the service applies it.
InEnvelope(p, b) ==
    /\ b.minx <= p[1] /\ p[1] <= b.maxx
    /\ b.miny <= p[2] /\ p[2] <= b.maxy

\* ------------------------------------------------------------ catalogue
\* Layers of the QGIS project (QgsVectorLayer: name, providerType, source).
SiteSmall == [name |-> "site_small", provider |-> "ogr", source |-> "site_small.shp"]

SiteBig == [name |-> "site_big", provider |-> "ogr", source |-> "site_big.shp"]

SiteGeo == [name |-> "site_geo", provider |-> "ogr", source |-> "site_geo.shp"]

SiteNoCrs == [name |-> "site_nocrs", provider |-> "ogr", source |-> "site_nocrs.shp"]

SiteLocal == [name |-> "site_local", provider |-> "ogr", source |-> "site_local.shp"]

SiteGone == [name |-> "site_gone", provider |-> "ogr", source |-> "site_gone.shp"]

ArcA == [name |-> "ArcA", provider |-> "arcgisfeatureserver",
         source |-> "url='https://host/rest/services/A/FeatureServer/0'"]

Parcels == [name |-> "Parcels", provider |-> "postgres", source |-> "dbname='gis' table=parcels"]

\* A scratch layer: its source() is the empty string.
Scratch == [name |-> "Scratch", provider |-> "memory", source |-> ""]

\* Layer names that end in ".shp" (none in the catalogue).
ShpNamed == {}

SmallSquare == [minx |-> -500, miny |-> -500, maxx |-> 500, maxy |-> 500]

BigSquare == [minx |-> -20000, miny |-> -20000, maxx |-> 20000, maxy |-> 20000]

\* SmallSquare in longitude/latitude (microdegrees).
GeoSquare == [minx |-> -10869939, miny |-> 51213410, maxx |-> -10856201, maxy |-> 51222739]

\* The square of half side 1000 m and BigSquare in longitude/latitude.
GeoSquare1000 == [minx |-> -10876807, miny |-> 51208746, maxx |-> -10849329, maxy |-> 51227402]

GeoSquareBig == [minx |-> -11136742, miny |-> 51031206, maxx |-> -10587180, maxy |-> 51404327]

\* The square about the origin of half side h metres.
Square(h) == [minx |-> -h, miny |-> -h, maxx |-> h, maxy |-> h]

\* Whether gpd.read_file(uri) returns (it raises for a missing file).
Readable(uri) ==
    uri \in {"site_small.shp", "site_big.shp", "site_geo.shp", "site_nocrs.shp",
             "site_local.shp"}

\* gpd.read_file(uri) of a readable application layer: a frame [crs, geom],
\* where geom is the union of the layer's polygons.
ReadFile(uri) ==
    CASE uri = "site_small.shp" -> [crs |-> "EPSG:29903", geom |-> SmallSquare]
      [] uri = "site_big.shp" -> [crs |-> "EPSG:29903", geom |-> BigSquare]
      [] uri = "site_geo.shp" -> [crs |-> "EPSG:4326", geom |-> GeoSquare]
      [] uri = "site_nocrs.shp" -> [crs |-> "none", geom |-> GeoSquare]
      [] uri = "site_local.shp" -> [crs |-> "LOCAL_CS", geom |-> SmallSquare]

\* layer.fields() of an application layer.
LayerFields(layer) == <<"site_id">>

\* Points the remote services hold, in EPSG:29903.
PoolPoint(k) ==
    CASE k = 1 -> <<0, 2000>>
      [] k = 2 -> <<2000, 0>>
      [] k = 3 -> <<0, -2000>>
      [] k = 4 -> <<-2000, 0>>
      [] k = 5 -> <<0, 550>>
      [] k = 6 -> <<510, 0>>
      [] k = 7 -> <<0, -530>>
      [] k = 8 -> <<-1, 30000>>
      [] k = 9 -> <<8283, 30000>>
      [] k = 10 -> <<0, 200000>>

PoolName(k) == <<"F1", "F2", "F3", "F4", "F5", "F6", "F7", "F8", "F9", "F10">>[k]

PoolCode(k) == <<"c1", "c2", "c3", "c4", "c5", "c6", "c7", "c8", "c9", "c10">>[k]

\* One served feature: attributes name, code and a point geometry.
Feature(k) == [name |-> PoolName(k), code |-> PoolCode(k), geometry |-> PoolPoint(k)]

\* The same points in longitude/latitude (microdegrees), as the WFS serves
\* them, and pyproj's transform of them to EPSG:29903 (whole metres).
GeoPoint(k) ==
    CASE k = 1 -> <<-10864186, 51236031>>
      [] k = 2 -> <<-10834478, 51218771>>
      [] k = 10 -> <<-10980553, 53013333>>

GeoFeature(k) == [name |-> PoolName(k), code |-> PoolCode(k), geometry |-> GeoPoint(k)]

ToIrishGridPoint(p) ==
    CASE p = <<-10864186, 51236031>> -> <<0, 2000>>
      [] p = <<-10834478, 51218771>> -> <<2000, 0>>
      [] p = <<-10980553, 53013333>> -> <<0, 200000>>

ToIrishGridRect(r) ==
    CASE r = GeoSquare -> SmallSquare
      [] r = GeoSquare1000 -> Square(1000)
      [] r = GeoSquareBig -> BigSquare

\* crs.to_epsg()
ToEpsg(crs) ==
    CASE crs = "EPSG:29903" -> TargetEpsg
      [] crs = "EPSG:4326" -> AssumedEpsg
      [] OTHER -> 0

\* Whether pyproj can transform from crs to EPSG:29903.
CanTransform(crs) == crs \in {"EPSG:29903", "EPSG:4326"}

\* ------------------------------------------------- coordinate normalizer
\* Mutant of to_metric_gdf: the test of line 109 is left out, every frame
\* that can be transformed is.
to_metric_gdf_always(gdf0) ==
    LET noCrs == gdf0.crs = "none"
        gdf == IF noCrs THEN [gdf0 EXCEPT !.crs = "EPSG:4326"] ELSE gdf0
        orig_crs == gdf.crs
        logs0 == IF noCrs THEN <<"Layer has no CRS; assumed EPSG:4326.">> ELSE <<>>
    IN IF CanTransform(orig_crs)
       THEN [gdf |-> [crs |-> "EPSG:29903",
                      geom |-> IF ToEpsg(orig_crs) = TargetEpsg THEN gdf.geom
                               ELSE ToIrishGridRect(gdf.geom)],
             changed |-> TRUE, orig_crs |-> orig_crs,
             logs |-> Append(logs0, "Reprojected layer to EPSG:29903 (Irish Grid).")]
       ELSE [gdf |-> gdf, changed |-> FALSE, orig_crs |-> orig_crs,
             logs |-> Append(logs0, "CRS conversion to EPSG:29903 failed")]

\* _to_metric_gdf(gdf): [gdf, changed, orig_crs, logs].  set_crs on a frame
\* without CRS succeeds (it only tags the frame).
to_metric_gdf(gdf0) ==
    LET noCrs == gdf0.crs = "none"
        gdf == IF noCrs THEN [gdf0 EXCEPT !.crs = "EPSG:4326"] ELSE gdf0
        orig_crs == gdf.crs
        logs0 == IF noCrs THEN <<"Layer has no CRS; assumed EPSG:4326.">> ELSE <<>>
    IN IF ToEpsg(orig_crs) # TargetEpsg
       THEN IF CanTransform(orig_crs)
            THEN [gdf |-> [crs |-> "EPSG:29903", geom |-> ToIrishGridRect(gdf.geom)],
                  changed |-> TRUE, orig_crs |-> orig_crs,
                  logs |-> Append(logs0, "Reprojected layer to EPSG:29903 (Irish Grid).")]
            ELSE [gdf |-> gdf, changed |-> FALSE, orig_crs |-> orig_crs,
                  logs |-> Append(logs0, "CRS conversion to EPSG:29903 failed")]
       ELSE [gdf |-> gdf, changed |-> FALSE, orig_crs |-> orig_crs, logs |-> logs0]

\* ------------------------------------------------------- remote services
\* wfs.contents of the EPA GeoServer: one layer, LEMA_Facilities, titled
\* Facilities.
\* type_name = layer_name if layer_name.startswith("EPA:") else "EPA:" + layer_name
WfsTypeName == "EPA:LEMA_Facilities"

\* display_name = f"{title} ({type_name})"
WfsDisplayName == "Facilities (EPA:LEMA_Facilities)"

\* Attribute fields both services describe for their features (the WFS
\* schema also lists the_geom, which the name filter drops).
ServiceFields == <<"name", "code">>

\* source_str after strip(), removal of "url=" and of the quotes.
CleanSource(src) ==
    CASE src = "url='https://host/rest/services/A/FeatureServer/0'"
           -> "https://host/rest/services/A/FeatureServer/0"
      [] OTHER -> src

\* "/FeatureServer/" in source_str or "/MapServer/" in source_str
IsRestSource(src) == src \in {"https://host/rest/services/A/FeatureServer/0"}

\* ------------------------------------------------------------------ state
VARIABLES
    project,            \* QgsProject.instance().mapLayers().values()
    remote,             \* what the services hold: [arc, wfs], pool indices
    dialog,             \* NearestAnalysisPlugin.dialog is not None
    combo_app,          \* [items, idx]; idx = -1 when empty
    combo_api,          \* [items, idx]
    shp_layers,
    api_layers,
    wfs_layers_info,    \* display name -> type name
    api_pre_filtered,   \* (api_name, app_index) -> prefiltered frame
    fields_list,        \* [items, selected]; selected in selectedItems() order
    connected,          \* combo signals are bound to their slots
    log,                \* lines appended to log_browser by the last user action
    net,                \* network requests issued by the last user action
    reads,              \* layer files read by the last user action
    msgbox,             \* QMessageBox shown by the last user action ("" = none)
    csv,                \* file written by the last user action
    figure,             \* figure window opened by the last user action
    presteps,           \* run_prestep invocations of the last user action that
                        \* passed the index guard, in order
    op,                 \* the last user action
    gdf_in,             \* argument of _to_metric_gdf (normalizer specification)
    gdf_out,            \* its result and the number of calls made
    deg,                \* argument of azimuth_to_dir (labelling specification)
    dir                 \* its result, "" before the call

vars == <<project, remote, dialog, combo_app, combo_api, shp_layers, api_layers,
          wfs_layers_info, api_pre_filtered, fields_list, connected, log, net,
          reads, msgbox, csv, figure, presteps, op, gdf_in, gdf_out, deg, dir>>

\* What no handler of the dialog writes.
env == <<project, remote, gdf_in, gdf_out, deg, dir>>

NoFrame == [crs |-> "none", geom |-> Square(0)]

\* gdf_out before the first call.
NotCalled == [calls |-> 0, gdf |-> NoFrame, changed |-> FALSE, orig_crs |-> "", logs |-> <<>>]

EmptyMap == [k \in {} |-> <<>>]

EmptyCombo == [items |-> <<>>, idx |-> -1]

NoCsv == [written |-> FALSE, header |-> <<>>, rows |-> <<>>]

NoFigure == [shown |-> FALSE, centroid |-> <<0, 0>>, nearest_pt_on_app |-> <<0, 0>>,
             nearest_pt_on_api |-> <<0, 0>>]

\* The dialog's fields and what the running handler has done so far, as one
\* record the handlers below transform.
Cur ==
    [combo_app |-> combo_app, combo_api |-> combo_api, shp_layers |-> shp_layers,
     api_layers |-> api_layers, wfs_layers_info |-> wfs_layers_info,
     api_pre_filtered |-> api_pre_filtered, fields_list |-> fields_list,
     connected |-> connected, log |-> <<>>, net |-> <<>>, reads |-> 0,
     msgbox |-> "", csv |-> NoCsv, figure |-> NoFigure, presteps |-> <<>>]

Commit(s) ==
    /\ combo_app' = s.combo_app
    /\ combo_api' = s.combo_api
    /\ shp_layers' = s.shp_layers
    /\ api_layers' = s.api_layers
    /\ wfs_layers_info' = s.wfs_layers_info
    /\ api_pre_filtered' = s.api_pre_filtered
    /\ fields_list' = s.fields_list
    /\ connected' = s.connected
    /\ log' = s.log
    /\ net' = s.net
    /\ reads' = s.reads
    /\ msgbox' = s.msgbox
    /\ csv' = s.csv
    /\ figure' = s.figure
    /\ presteps' = s.presteps

\* ---------------------------------------------------------------- widgets
\* self.log(message)
Log(s, message) == [s EXCEPT !.log = Append(@, message)]

LogAll(s, messages) == [s EXCEPT !.log = @ \o messages]

\* requests.get / WebFeatureService: one request on the wire.
Request(s, what) == [s EXCEPT !.net = Append(@, what)]

currentText(combo) == IF combo.idx >= 0 THEN combo.items[combo.idx + 1] ELSE ""

\* dict.get(key) with "" for None.
Get(map, key) == IF key \in DOMAIN map THEN map[key] ELSE ""

Put(map, key, value) == (key :> value) @@ map

Contains(seq, x) == \E i \in 1..Len(seq) : seq[i] = x

Without(seq, x) == SelectSeq(seq, LAMBDA y : y # x)

\* show_selected_fields, the slot of fields_list.itemSelectionChanged.
show_selected_fields(s) == Log(s, "Selected fields")

\* fields_list.clear(): the selection, when there was one, changes.
FieldsClear(s) ==
    LET s1 == [s EXCEPT !.fields_list = [items |-> <<>>, selected |-> <<>>]]
    IN IF s.fields_list.selected # <<>> THEN show_selected_fields(s1) ELSE s1

FieldsAdd(s, names) == [s EXCEPT !.fields_list.items = @ \o names]

\* The source of the project layer named api_name among api_layers ("" for None).
RECURSIVE SourceOf(_, _)
SourceOf(layers, api_name) ==
    IF layers = <<>> THEN ""
    ELSE IF Head(layers).name = api_name THEN Head(layers).source
    ELSE SourceOf(Tail(layers), api_name)

\* ------------------------------------------------------ update_fields_for_api
\* Slot of combo_api.currentIndexChanged.  io.fields: the schema request
\* succeeds.
update_fields_for_api(s, io) ==
    LET s0 == FieldsClear(s)
        api_name == currentText(s0.combo_api)
        type_name == Get(s0.wfs_layers_info, api_name)
        source_str == CleanSource(SourceOf(s0.api_layers, api_name))
    IN IF api_name = "" THEN s0
       ELSE IF type_name # ""
       THEN LET s1 == Request(s0, "DescribeFeatureType")
            IN IF io.fields
               THEN Log(FieldsAdd(s1, ServiceFields), "Loaded WFS fields.")
               ELSE Log(s1, "Failed to load WFS fields")
       ELSE IF source_str = "" THEN s0
       ELSE IF IsRestSource(source_str)
       THEN LET s1 == Request(s0, "layer json")
            IN IF io.fields
               THEN Log(FieldsAdd(s1, ServiceFields), "Loaded ArcGIS REST fields.")
               ELSE Log(s1, "Failed to load ArcGIS fields")
       ELSE Log(s0, "Selected API is not recognized as ArcGIS REST or WFS.")

\* ------------------------------------------------------------- run_prestep
FrameCols == <<"name", "code", COL_GEOM>>

\* A GeoDataFrame of the given rows, tagged EPSG:29903.
Frame(rows) ==
    [crs |-> "EPSG:29903",
     cols |-> IF rows = <<>> THEN <<COL_GEOM>> ELSE FrameCols,
     rows |-> rows]

\* Mutant of Prefilter: every row is kept.
PrefilterAll(api_gdf, geom) == api_gdf

\* api_gdf[api_gdf.geometry.intersects(buffer_geom)].reset_index(drop=True)
Prefilter(api_gdf, geom) ==
    [api_gdf EXCEPT !.rows = SelectSeq(@, LAMBDA row : IntersectsBuffer(row.geometry, geom))]

\* Mutant of CacheHit: the cache is never consulted.
CacheHitNever(s, cache_key) == FALSE

\* cache_key in self.api_pre_filtered
CacheHit(s, cache_key) == cache_key \in DOMAIN s.api_pre_filtered

\* Mutant of Store: the new entry replaces the whole dictionary.
StoreAlone(s, cache_key, pre_gdf) ==
    [s EXCEPT !.api_pre_filtered = (cache_key :> pre_gdf)]

\* self.api_pre_filtered[cache_key] = pre_gdf
Store(s, cache_key, pre_gdf) ==
    [s EXCEPT !.api_pre_filtered = Put(@, cache_key, pre_gdf)]

\* The outermost except of run_prestep: the message and the traceback.
PrestepFailed(s) == Log(Log(s, "Preprocessing failed"), "traceback")

\* GetFeature answer of the WFS: every feature of the type, in EPSG:4326,
\* read by gpd.read_file and reprojected by to_crs(epsg=29903).
WfsFrame ==
    Frame([i \in 1..Len(remote.wfs) |->
             [GeoFeature(remote.wfs[i]) EXCEPT !.geometry = ToIrishGridPoint(@)]])

\* Mutant of FetchWfs: a failed request is tried once more.
FetchWfsRetry(s, io, cache_key, geom) ==
    LET s1 == Request(s, "GetFeature")
    IN IF io.fetch
       THEN Log(Store(s1, cache_key, Prefilter(WfsFrame, geom)),
                "Found WFS features within 100 km (EPSG:29903).")
       ELSE Log(Request(s1, "GetFeature"), "WFS pre-download failed")

\* Case 1 (lines 281-300).
FetchWfs(s, io, cache_key, geom) ==
    LET s1 == Request(s, "GetFeature")
    IN IF io.fetch
       THEN Log(Store(s1, cache_key, Prefilter(WfsFrame, geom)),
                "Found WFS features within 100 km (EPSG:29903).")
       ELSE Log(s1, "WFS pre-download failed")

\* data.get("features", []) of the query answer: the service returns the
\* features that intersect the envelope, in outSR = 29903.
ArcFeatures(bbox) ==
    SelectSeq([i \in 1..Len(remote.arc) |-> Feature(remote.arc[i])],
              LAMBDA f : InEnvelope(f.geometry, bbox))

\* Mutant of FetchArcGis: an empty answer is stored like any other.
FetchArcGisKeepEmpty(s, io, cache_key, geom) ==
    LET s1 == Request(s, "query")
        feats == ArcFeatures(BufferBounds(geom))
    IN IF ~io.fetch THEN Log(s1, "ArcGIS REST pre-download failed")
       ELSE IF feats = <<>>
       THEN Log(Store(s1, cache_key, Frame(feats)), "No features returned from ArcGIS API.")
       ELSE Log(Store(s1, cache_key, Prefilter(Frame(feats), geom)),
                "Found ArcGIS features within 100 km (EPSG:29903).")

\* Case 2 (lines 302-356) for a recognised REST source.
FetchArcGis(s, io, cache_key, geom) ==
    LET s1 == Request(s, "query")
        feats == ArcFeatures(BufferBounds(geom))
    IN IF ~io.fetch THEN Log(s1, "ArcGIS REST pre-download failed")
       ELSE IF feats = <<>> THEN Log(s1, "No features returned from ArcGIS API.")
       ELSE Log(Store(s1, cache_key, Prefilter(Frame(feats), geom)),
                "Found ArcGIS features within 100 km (EPSG:29903).")

\* Mutant of Download: a layer of no recognised shape is queried like a
\* REST layer.
DownloadQueryAnyway(s, io, api_name, type_name, cache_key) ==
    LET app_index == s.combo_app.idx
    IN IF app_index + 1 > Len(s.shp_layers) THEN PrestepFailed(s)
       ELSE LET uri == s.shp_layers[app_index + 1].source
                s1 == [s EXCEPT !.reads = @ + 1]
            IN IF ~Readable(uri) THEN PrestepFailed(s1)
               ELSE LET norm == to_metric_gdf(ReadFile(uri))
                        s2 == LogAll(s1, norm.logs)
                        geom == norm.gdf.geom
                    IN IF type_name # "" THEN FetchWfs(s2, io, cache_key, geom)
                       ELSE FetchArcGis(s2, io, cache_key, geom)

\* Lines 274-358: the key is not cached.
Download(s, io, api_name, type_name, cache_key) ==
    LET app_index == s.combo_app.idx
    IN IF app_index + 1 > Len(s.shp_layers) THEN PrestepFailed(s)
       ELSE LET uri == s.shp_layers[app_index + 1].source
                s1 == [s EXCEPT !.reads = @ + 1]
            IN IF ~Readable(uri) THEN PrestepFailed(s1)
               ELSE LET norm == to_metric_gdf(ReadFile(uri))
                        s2 == LogAll(s1, norm.logs)
                        geom == norm.gdf.geom
                        source_str == CleanSource(SourceOf(s2.api_layers, api_name))
                    IN IF type_name # "" THEN FetchWfs(s2, io, cache_key, geom)
                       ELSE IF source_str # "" /\ IsRestSource(source_str)
                       THEN FetchArcGis(s2, io, cache_key, geom)
                       ELSE Log(s2, "Unsupported API type or empty data source.")

\* What one invocation that passed the index guard found and did: its key,
\* whether shp_layers had an element at app_index, whether api_layers held a
\* layer named api_name, whether the name was a key of wfs_layers_info, and
\* the number of requests it issued.
Invocation(s, t, cache_key) ==
    [key |-> cache_key,
     has_app |-> cache_key[2] + 1 <= Len(s.shp_layers),
     has_api |-> \E i \in 1..Len(s.api_layers) : s.api_layers[i].name = cache_key[1],
     in_wfs |-> cache_key[1] \in DOMAIN s.wfs_layers_info,
     requests |-> Len(t.net) - Len(s.net)]

\* Slot of both combos' currentIndexChanged.  io.fetch: the download request
\* succeeds (answers with a parsable body).
run_prestep(s, io) ==
    LET app_index == s.combo_app.idx
        api_index == s.combo_api.idx
        api_name == currentText(s.combo_api)
        type_name == Get(s.wfs_layers_info, api_name)
        cache_key == <<api_name, app_index>>
        t == IF CacheHit(s, cache_key) THEN Log(s, "Using cached preprocessed data.")
             ELSE Download(s, io, api_name, type_name, cache_key)
    IN IF app_index < 0 \/ api_index < 0 THEN s
       ELSE [t EXCEPT !.presteps = Append(@, Invocation(s, t, cache_key))]

\* --------------------------------------------------------- populate_layers
\* currentIndexChanged of combo_api: update_fields_for_api, then run_prestep
\* (the order of connection), when the slots are bound.
ApiIndexChanged(s, io) ==
    IF s.connected THEN run_prestep(update_fields_for_api(s, io), io) ELSE s

\* currentIndexChanged of combo_app: run_prestep.
AppIndexChanged(s, io) == IF s.connected THEN run_prestep(s, io) ELSE s

\* QComboBox.clear(): a combo that had items loses its current index.
AppClear(s, io) ==
    LET s1 == [s EXCEPT !.combo_app = EmptyCombo]
    IN IF s.combo_app.idx >= 0 THEN AppIndexChanged(s1, io) ELSE s1

ApiClear(s, io) ==
    LET s1 == [s EXCEPT !.combo_api = EmptyCombo]
    IN IF s.combo_api.idx >= 0 THEN ApiIndexChanged(s1, io) ELSE s1

\* QComboBox.addItem(name): the first item becomes the current one.
AppAddItem(s, name) ==
    [s EXCEPT !.combo_app = [items |-> Append(@.items, name),
                             idx |-> IF @.items = <<>> THEN 0 ELSE @.idx]]

ApiAddItem(s, name) ==
    [s EXCEPT !.combo_api = [items |-> Append(@.items, name),
                             idx |-> IF @.items = <<>> THEN 0 ELSE @.idx]]

\* provider == "ogr" or name.lower().endswith(".shp")
IsAppLayer(layer) == layer.provider = "ogr" \/ layer.name \in ShpNamed

\* One turn of the loop of lines 131-140: addItem (whose signal runs the
\* slots at once), then append to the layer list.
AddLayer(s, layer, io) ==
    IF IsAppLayer(layer)
    THEN LET s1 == AppAddItem(s, layer.name)
             s2 == IF s.combo_app.items = <<>> THEN AppIndexChanged(s1, io) ELSE s1
         IN [s2 EXCEPT !.shp_layers = Append(@, layer)]
    ELSE LET s1 == ApiAddItem(s, layer.name)
             s2 == IF s.combo_api.items = <<>> THEN ApiIndexChanged(s1, io) ELSE s1
         IN [s2 EXCEPT !.api_layers = Append(@, layer)]

RECURSIVE AddLayers(_, _, _)
AddLayers(s, layers, io) ==
    IF layers = <<>> THEN s
    ELSE AddLayers(AddLayer(s, Head(layers), io), Tail(layers), io)

\* Lines 142-154: the EPA catalogue.  io.wfs: the capabilities request
\* succeeds.
LoadWfs(s, io) ==
    LET s1 == Request(s, "GetCapabilities")
    IN IF ~io.wfs THEN Log(s1, "Failed to access WFS service")
       ELSE LET s2 == ApiAddItem(s1, WfsDisplayName)
                s3 == IF s1.combo_api.items = <<>> THEN ApiIndexChanged(s2, io) ELSE s2
                s4 == [s3 EXCEPT !.wfs_layers_info = Put(@, WfsDisplayName, WfsTypeName)]
            IN Log(s4, "Loaded WFS layers.")

\* Lines 156-163.
PrefillFields(s) ==
    IF s.shp_layers # <<>>
    THEN FieldsAdd(FieldsClear(s), LayerFields(s.shp_layers[1]))
    ELSE s

\* Lines 125-128: the lists and both dictionaries are emptied.
ResetState(s) ==
    [s EXCEPT !.shp_layers = <<>>, !.api_layers = <<>>,
              !.wfs_layers_info = EmptyMap, !.api_pre_filtered = EmptyMap]

populate_layers(s, io) ==
    LET s1 == ApiClear(AppClear(s, io), io)
        s2 == ResetState(s1)
        s3 == AddLayers(s2, project, io)
        s4 == LoadWfs(s3, io)
        s5 == PrefillFields(s4)
    IN [s5 EXCEPT !.connected = TRUE]

\* NearestAnalysisDialog.__init__: fresh widgets, empty dictionaries, then
\* populate_layers.
NewDialog(s, io) ==
    populate_layers(
        [s EXCEPT !.combo_app = EmptyCombo, !.combo_api = EmptyCombo,
                  !.fields_list = [items |-> <<>>, selected |-> <<>>],
                  !.wfs_layers_info = EmptyMap, !.api_pre_filtered = EmptyMap,
                  !.connected = FALSE],
        io)

\* ------------------------------------------------------------ run_analysis
ComputedCols == <<COL_DIST, COL_DEG, COL_DIR>>

\* Lines 412-422 for one row: the three computed columns.
WithComputed(row, geom) ==
    LET nearest_pt_on_app == NearestOnBoundary(row.geometry, geom)
        dist == Distance(row.geometry, nearest_pt_on_app)
        angle == azimuth_geographic(Centroid(geom), nearest_pt_on_app)
    IN (COL_DIST :> dist) @@ (COL_DEG :> Round2(angle))
       @@ (COL_DIR :> azimuth_to_dir(angle)) @@ row

\* Lines 393-422: result_gdf, the rows of pre_gdf inside the buffer with
\* their computed columns, in the order of pre_gdf.
Evaluate(pre_gdf, geom) ==
    LET inside == Prefilter(pre_gdf, geom)
    IN [crs |-> inside.crs,
        cols |-> inside.cols \o ComputedCols,
        rows |-> [i \in 1..Len(inside.rows) |-> WithComputed(inside.rows[i], geom)]]

\* Mutant of SortFirst: no sort, any row may lead.
SortAny(rows) == 1..Len(rows)

\* Positions that sort_values("Distance_m") may put first: the sort is
\* pandas' default quicksort, which is not stable, so any row of least
\* distance can lead.
SortFirst(rows) ==
    {i \in 1..Len(rows) : \A j \in 1..Len(rows) : rows[i][COL_DIST] <= rows[j][COL_DIST]}

\* Line 425: sort_values(...).head(1).reset_index(drop=True), the sort
\* having put row pick first.
SortHead(result_gdf, pick) == [result_gdf EXCEPT !.rows = <<@[pick]>>]

\* The outermost except of run_analysis.
AnalysisFailed(s) == Log(Log(s, "Analysis failed"), "traceback")

\* Mutant of ExportCols: the selection is ignored.
ExportColsAll(s, result_gdf) == Without(result_gdf.cols, COL_GEOM) \o ComputedCols

\* Lines 427-431.
ExportCols(s, result_gdf) ==
    LET selected == s.fields_list.selected
        selected_fields == IF selected = <<>>
                           THEN Without(result_gdf.cols, COL_GEOM)
                           ELSE selected
    IN selected_fields \o ComputedCols

\* result_gdf[export_cols].to_csv(...): header and one line per row.
ToCsv(result_gdf, export_cols) ==
    [written |-> TRUE,
     header |-> export_cols,
     rows |-> [i \in 1..Len(result_gdf.rows) |->
                 [c \in 1..Len(export_cols) |-> result_gdf.rows[i][export_cols[c]]]]]

\* Lines 446-480.
Plot(result_gdf, geom) ==
    LET nearest_geom == result_gdf.rows[1].geometry
    IN [shown |-> TRUE, centroid |-> Centroid(geom),
        nearest_pt_on_app |-> NearestOnBoundary(nearest_geom, geom),
        nearest_pt_on_api |-> nearest_geom]

\* Mutant of Export: the file is written before the save dialog is answered.
ExportThenAsk(s, io, result_gdf, geom) ==
    LET export_cols == ExportCols(s, result_gdf)
        s1 == [s EXCEPT !.csv = ToCsv(result_gdf, export_cols)]
    IN IF \E c \in 1..Len(export_cols) : ~Contains(result_gdf.cols, export_cols[c])
       THEN AnalysisFailed(s)
       ELSE IF ~io.save THEN Log(s1, "CSV save cancelled by user.")
       ELSE LET s2 == Log(Log(s1, "CSV saved"), "Opening Matplotlib Figure Window...")
            IN [s2 EXCEPT !.figure = Plot(result_gdf, geom)]

\* Lines 427-480.  io.save: the user picks a file in the save dialog.
Export(s, io, result_gdf, geom) ==
    LET export_cols == ExportCols(s, result_gdf)
    IN IF ~io.save THEN Log(s, "CSV save cancelled by user.")
       ELSE IF \E c \in 1..Len(export_cols) : ~Contains(result_gdf.cols, export_cols[c])
       THEN AnalysisFailed(s)
       ELSE LET s1 == [s EXCEPT !.csv = ToCsv(result_gdf, export_cols)]
                s2 == Log(Log(s1, "CSV saved"), "Opening Matplotlib Figure Window...")
            IN [s2 EXCEPT !.figure = Plot(result_gdf, geom)]

MessageBox(s, text) == [s EXCEPT !.msgbox = text]

\* Whether run_analysis gets as far as reading the application layer.
HasInput(s) ==
    LET cache_key == <<currentText(s.combo_api), s.combo_app.idx>>
    IN /\ s.combo_app.idx >= 0
       /\ currentText(s.combo_api) # ""
       /\ CacheHit(s, cache_key)
       /\ s.api_pre_filtered[cache_key].rows # <<>>

\* result_gdf of lines 393-422, or no rows when the handler ends before.
Candidates(s) ==
    IF HasInput(s) /\ s.combo_app.idx + 1 <= Len(s.shp_layers)
                   /\ Readable(s.shp_layers[s.combo_app.idx + 1].source)
    THEN Evaluate(s.api_pre_filtered[<<currentText(s.combo_api), s.combo_app.idx>>],
                  to_metric_gdf(ReadFile(s.shp_layers[s.combo_app.idx + 1].source)).gdf.geom).rows
    ELSE <<>>

\* Slot of run_btn.clicked.  io.pick: the row the sort puts first.
run_analysis(s, io) ==
    LET s0 == Log(s, "All computations use EPSG:29903 (Irish Grid).")
        app_index == s.combo_app.idx
        api_name == currentText(s.combo_api)
        cache_key == <<api_name, app_index>>
    IN IF app_index < 0 \/ api_name = ""
       THEN MessageBox(s0, "Please select both layers.")
       ELSE IF ~HasInput(s0) THEN MessageBox(s0, "Preprocessed data is empty.")
       ELSE IF app_index + 1 > Len(s0.shp_layers) THEN AnalysisFailed(s0)
       ELSE LET uri == s0.shp_layers[app_index + 1].source
                s1 == [s0 EXCEPT !.reads = @ + 1]
            IN IF ~Readable(uri) THEN AnalysisFailed(s1)
               ELSE LET norm == to_metric_gdf(ReadFile(uri))
                        s2 == LogAll(s1, norm.logs)
                        geom == norm.gdf.geom
                        result_gdf == Evaluate(s2.api_pre_filtered[cache_key], geom)
                    IN IF result_gdf.rows = <<>>
                       THEN MessageBox(s2, "No features found within the 100 km buffer.")
                       ELSE Export(s2, io, SortHead(result_gdf, io.pick), geom)

\* ---------------------------------------------------------------- actions
\* What the environment answers during one user action.
IO(w, f, d, sv, pk) == [wfs |-> w, fields |-> f, fetch |-> d, save |-> sv, pick |-> pk]

\* NearestAnalysisPlugin.run: the toolbar action.  The first call builds the
\* dialog, later calls refresh it.  W, F, D: the outcomes the capabilities,
\* schema and download requests may have.
PluginRunWith(W, F, D) ==
    /\ \E w \in W, f \in F, d \in D :
          LET io == IO(w, f, d, FALSE, 1)
          IN Commit(IF dialog THEN populate_layers(Cur, io) ELSE NewDialog(Cur, io))
    /\ dialog' = TRUE
    /\ op' = "plugin_run"
    /\ UNCHANGED env

PluginRun == PluginRunWith(BOOLEAN, BOOLEAN, BOOLEAN)

\* refresh_btn.clicked -> populate_layers.
Refresh ==
    /\ dialog
    /\ \E w, f, d \in BOOLEAN : Commit(populate_layers(Cur, IO(w, f, d, FALSE, 1)))
    /\ op' = "refresh"
    /\ UNCHANGED <<env, dialog>>

\* The user picks another application layer in combo_app.
SelectApp ==
    /\ dialog
    /\ \E i \in 0..(Len(combo_app.items) - 1), d \in BOOLEAN :
          /\ i # combo_app.idx
          /\ Commit(AppIndexChanged([Cur EXCEPT !.combo_app.idx = i],
                                    IO(FALSE, FALSE, d, FALSE, 1)))
    /\ op' = "select_app"
    /\ UNCHANGED <<env, dialog>>

\* The user picks another API layer in combo_api.
SelectApiWith(F, D) ==
    /\ dialog
    /\ \E i \in 0..(Len(combo_api.items) - 1), f \in F, d \in D :
          /\ i # combo_api.idx
          /\ Commit(ApiIndexChanged([Cur EXCEPT !.combo_api.idx = i],
                                    IO(FALSE, f, d, FALSE, 1)))
    /\ op' = "select_api"
    /\ UNCHANGED <<env, dialog>>

SelectApi == SelectApiWith(BOOLEAN, BOOLEAN)

\* The user clicks a line of fields_list (MultiSelection: a click toggles).
ToggleField ==
    /\ dialog
    /\ \E i \in 1..Len(fields_list.items) :
          LET name == fields_list.items[i]
              selected == IF Contains(fields_list.selected, name)
                          THEN Without(fields_list.selected, name)
                          ELSE Append(fields_list.selected, name)
          IN Commit(show_selected_fields([Cur EXCEPT !.fields_list.selected = selected]))
    /\ op' = "toggle_field"
    /\ UNCHANGED <<env, dialog>>

\* run_btn.clicked -> run_analysis.
RunAnalysis ==
    /\ dialog
    /\ \E sv \in BOOLEAN :
          \E pk \in (IF Candidates(Cur) = <<>> THEN {1} ELSE SortFirst(Candidates(Cur))) :
             Commit(run_analysis(Cur, IO(FALSE, FALSE, FALSE, sv, pk)))
    /\ op' = "run_analysis"
    /\ UNCHANGED <<env, dialog>>

\* ------------------------------------------------------- specifications
RECURSIVE SeqsUpTo(_, _)
SeqsUpTo(S, n) ==
    IF n = 0 THEN {<<>>}
    ELSE LET shorter == SeqsUpTo(S, n - 1)
         IN shorter \cup {Append(q, x) : q \in shorter, x \in S}

Blank ==
    /\ dialog = FALSE
    /\ combo_app = EmptyCombo
    /\ combo_api = EmptyCombo
    /\ shp_layers = <<>>
    /\ api_layers = <<>>
    /\ wfs_layers_info = EmptyMap
    /\ api_pre_filtered = EmptyMap
    /\ fields_list = [items |-> <<>>, selected |-> <<>>]
    /\ connected = FALSE
    /\ log = <<>>
    /\ net = <<>>
    /\ reads = 0
    /\ msgbox = ""
    /\ csv = NoCsv
    /\ figure = NoFigure
    /\ presteps = <<>>
    /\ op = "start"
    /\ gdf_out = NotCalled
    /\ dir = ""

\* Projects and service contents of the dialog specification.
Projects ==
    {<<SiteSmall, SiteBig, ArcA, Parcels>>, <<ArcA, SiteSmall>>,
     <<SiteLocal, SiteGone, ArcA, Scratch>>, <<SiteNoCrs, SiteGeo, ArcA>>}

Init ==
    /\ project \in Projects
    /\ remote \in [arc : {<<>>, <<1>>, <<6, 10>>}, wfs : {<<>>, <<10>>, <<1, 10>>}]
    /\ gdf_in = NoFrame
    /\ deg = 0
    /\ Blank

Next ==
    \/ PluginRun
    \/ Refresh
    \/ SelectApp
    \/ SelectApi
    \/ ToggleField
    \/ RunAnalysis

Spec == Init /\ [][Next]_vars

\* The evaluation specification: one site and one query service that
\* holds any collection of at most MaxFeatures features of the site's pool;
\* the catalogue is out of reach and the service answers every request.
SmallPool == {1, 2, 5, 6, 7, 10}

BigPool == {1, 2, 3, 4, 8, 9}

InitEval ==
    /\ \/ /\ project = <<SiteSmall, ArcA, Parcels>>
          /\ remote \in [arc : SeqsUpTo(SmallPool, MaxFeatures), wfs : {<<>>}]
       \/ /\ project = <<SiteBig, ArcA, Parcels>>
          /\ remote \in [arc : SeqsUpTo(BigPool, MaxFeatures), wfs : {<<>>}]
    /\ gdf_in = NoFrame
    /\ deg = 0
    /\ Blank

OpenEval == PluginRunWith({FALSE}, {TRUE}, {TRUE})

SelectApiEval == SelectApiWith({TRUE}, {TRUE})

NextEval ==
    \/ OpenEval
    \/ SelectApiEval
    \/ ToggleField
    \/ RunAnalysis

SpecEval == InitEval /\ [][NextEval]_vars

\* The labelling specification: azimuth_to_dir applied to one bearing of
\* [0, 360): every tenth of a degree, and the millidegrees on either side of
\* each sector limit.
DegSamples ==
    {100 * k : k \in 0..3599}
    \cup {HalfSector + SectorWidth * k - 1 : k \in 0..7}
    \cup {HalfSector + SectorWidth * k : k \in 0..7}
    \cup {HalfSector + SectorWidth * k + 1 : k \in 0..7}
    \cup {FullTurn - 1}

InitDir ==
    /\ project = <<>>
    /\ remote = [arc |-> <<>>, wfs |-> <<>>]
    /\ gdf_in = NoFrame
    /\ deg \in DegSamples
    /\ Blank

ApplyDir ==
    /\ dir = ""
    /\ dir' = azimuth_to_dir(deg)
    /\ UNCHANGED <<project, remote, dialog, combo_app, combo_api, shp_layers,
                   api_layers, wfs_layers_info, api_pre_filtered, fields_list,
                   connected, log, net, reads, msgbox, csv, figure, presteps, op,
                   gdf_in, gdf_out, deg>>

SpecDir == InitDir /\ [][ApplyDir]_vars

\* The normalizer specification: _to_metric_gdf applied to a collection,
\* then to its own output.  The collections: a square tagged EPSG:29903 or
\* with a local engineering system, and a geographic square tagged
\* EPSG:4326 or not tagged.
InputFrames ==
    {[crs |-> c, geom |-> Square(500 * h)] :
        c \in {"EPSG:29903", "LOCAL_CS"}, h \in 1..MaxHalfSide}
    \cup {[crs |-> c, geom |-> g] :
        c \in {"EPSG:4326", "none"}, g \in {GeoSquare, GeoSquare1000, GeoSquareBig}}

InitCrs ==
    /\ project = <<>>
    /\ remote = [arc |-> <<>>, wfs |-> <<>>]
    /\ gdf_in \in InputFrames
    /\ deg = 0
    /\ Blank

\* The dialog's variables, which the normalizer leaves alone but for the log.
DialogVars ==
    <<project, remote, dialog, combo_app, combo_api, shp_layers, api_layers,
      wfs_layers_info, api_pre_filtered, fields_list, connected, net, reads,
      msgbox, csv, figure, presteps, op, deg, dir>>

Called(result, n) ==
    [calls |-> n, gdf |-> result.gdf, changed |-> result.changed,
     orig_crs |-> result.orig_crs, logs |-> result.logs]

Normalize ==
    /\ gdf_out.calls = 0
    /\ gdf_out' = Called(to_metric_gdf(gdf_in), 1)
    /\ log' = log \o gdf_out'.logs
    /\ UNCHANGED <<gdf_in, DialogVars>>

\* _to_metric_gdf applied to the output of the first call.
Renormalize ==
    /\ gdf_out.calls = 1
    /\ gdf_in' = gdf_out.gdf
    /\ gdf_out' = Called(to_metric_gdf(gdf_out.gdf), 2)
    /\ log' = log \o gdf_out'.logs
    /\ UNCHANGED DialogVars

NextCrs ==
    \/ Normalize
    \/ Renormalize

SpecCrs == InitCrs /\ [][NextCrs]_vars

\* ------------------------------------------------------------ properties
\* The cache key of the current selection.
CurKey == <<currentText(combo_api), combo_app.idx>>

Selecting == {"select_app", "select_api"}

\* Requests run_prestep issues (the schema requests belong to
\* update_fields_for_api).
Downloads == {"GetFeature", "query"}

NoDownload(requests) == \A i \in 1..Len(requests) : requests[i] \notin Downloads

\* Cells of the exported line under the three computed columns, which
\* close the header.
CsvDist == csv.rows[1][Len(csv.header) - 2]

CsvDeg == csv.rows[1][Len(csv.header) - 1]

CsvDir == csv.rows[1][Len(csv.header)]

\* C1: run_prestep for a pair whose key is already cached issues no
\* download request, reads no layer file and leaves the cache as it was.
C1_CachedPrestepIsNoOp ==
    [][(op' \in Selecting /\ CurKey' \in DOMAIN api_pre_filtered)
          => /\ api_pre_filtered' = api_pre_filtered
             /\ reads' = 0
             /\ NoDownload(net')
             /\ Contains(log', "Using cached preprocessed data.")]_vars

C1_Witness ==
    /\ op \in Selecting
    /\ CurKey \in DOMAIN api_pre_filtered
    /\ Contains(log, "Using cached preprocessed data.")

\* Every entry of the cache is kept, with its collection, by the step.
CacheKept ==
    \A k \in DOMAIN api_pre_filtered :
        /\ k \in DOMAIN api_pre_filtered'
        /\ api_pre_filtered'[k] = api_pre_filtered[k]

\* C2 as stated: a stored collection stays in the cache, unchanged, through
\* every later user action.
C2_CacheNeverInvalidated == [][CacheKept]_vars

\* C2 amended: a stored collection stays in the cache, unchanged, through
\* every selection change, field click and run; populate_layers (the refresh
\* button, re-opening through the plugin action) is what empties the cache.
C2_CacheKeptUntilPopulate ==
    [][op' \notin {"refresh", "plugin_run"} => CacheKept]_vars

C2_Witness ==
    /\ op \in Selecting
    /\ Cardinality(DOMAIN api_pre_filtered) >= 2

\* Distances of the candidates of the current selection.
CandidateDistances ==
    {Candidates(Cur)[j][COL_DIST] : j \in 1..Len(Candidates(Cur))}

\* C3: of a non-empty candidate set run_analysis keeps one feature, whose
\* distance is at most that of every candidate (of distances {50, 10, 30}
\* the one at 10); the exported file has one data line.
C3_KeepsOneNearest ==
    csv.written =>
        /\ Len(csv.rows) = 1
        /\ Candidates(Cur) # <<>>
        /\ \A d \in CandidateDistances : CsvDist <= d
        /\ \E j \in 1..Len(Candidates(Cur)) :
              /\ Candidates(Cur)[j][COL_DIST] = CsvDist
              /\ Candidates(Cur)[j].geometry = figure.nearest_pt_on_api
        /\ (CandidateDistances = {50, 10, 30} => CsvDist = 10)

C3_Witness ==
    /\ csv.written
    /\ Len(Candidates(Cur)) = 3
    /\ CandidateDistances = {50, 10, 30}
    /\ CsvDist = 10

\* The first candidate, in input order, of least distance.
FirstNearest ==
    CHOOSE i \in SortFirst(Candidates(Cur)) : \A j \in SortFirst(Candidates(Cur)) : i <= j

\* C4: of several candidates at the least distance, the one kept is the
\* first in the input order.
C4_TieKeepsFirst ==
    csv.written => figure.nearest_pt_on_api = Candidates(Cur)[FirstNearest].geometry

\* C5: with no field selected, the header is every attribute field of the
\* nearest feature (geometry left out) followed by Distance_m,
\* Direction (°), Direction, once.
C5_DefaultHeader ==
    (csv.written /\ fields_list.selected = <<>>)
        => csv.header = <<"name", "code", COL_DIST, COL_DEG, COL_DIR>>

\* C6: with a non-empty selection S of existing attribute names, the
\* exported line has the columns of S, in the order of selection, then
\* Distance_m, Direction (°), Direction, and no other; the cells under S are
\* the attributes of the feature kept.
C6_SelectedHeader ==
    (csv.written /\ fields_list.selected # <<>>)
        => /\ csv.header = fields_list.selected \o <<COL_DIST, COL_DEG, COL_DIR>>
           /\ Len(csv.rows[1]) = Len(fields_list.selected) + 3
           /\ \E j \in 1..Len(Candidates(Cur)) :
                 /\ Candidates(Cur)[j].geometry = figure.nearest_pt_on_api
                 /\ \A i \in 1..Len(fields_list.selected) :
                       csv.rows[1][i] = Candidates(Cur)[j][fields_list.selected[i]]

C6_Witness ==
    /\ csv.written
    /\ fields_list.selected = <<"name">>
    /\ csv.header = <<"name", COL_DIST, COL_DEG, COL_DIR>>

\* C7: the exported bearing, normalised and rounded to 2 decimals, lies in
\* [0, 360).
C7_BearingInRange == csv.written => (0 <= CsvDeg /\ CsvDeg < FullTurn)

\* The 45-degree sector, centred on a compass point, that holds d.
SectorLabel(d) ==
    CASE d < 22500 \/ d >= 337500 -> "N"
      [] 22500 <= d /\ d < 67500 -> "NE"
      [] 67500 <= d /\ d < 112500 -> "E"
      [] 112500 <= d /\ d < 157500 -> "SE"
      [] 157500 <= d /\ d < 202500 -> "S"
      [] 202500 <= d /\ d < 247500 -> "SW"
      [] 247500 <= d /\ d < 292500 -> "W"
      [] 292500 <= d /\ d < 337500 -> "NW"

\* C8: for d in [0, 360) azimuth_to_dir(d) is the label of the sector of
\* 45 degrees centred on a compass point that holds d; 0 -> N, 22.4 -> N,
\* 22.6 -> NE, 67.5 -> E, 359.9 -> N.
C8_SectorLabels ==
    dir # "" =>
        /\ dir = SectorLabel(deg)
        /\ (deg = 0 => dir = "N")
        /\ (deg = 22400 => dir = "N")
        /\ (deg = 22600 => dir = "NE")
        /\ (deg = 67500 => dir = "E")
        /\ (deg = 359900 => dir = "N")

C8_Witness == deg = 22600 /\ dir = "NE"

\* C9: the bearing runs from the centroid of the local area to the nearest
\* boundary point P, 0 at north and clockwise: P due north 0 / N, due east
\* 90 / E, due south 180 / S, due west 270 / W.  For the 1000 x 1000 square
\* about (0, 0) and one remote point at (0, 2000): P = (0, 500), distance
\* 1500, bearing 0, label N.
C9_BearingFromCentroid ==
    figure.shown =>
        LET c == figure.centroid
            P == figure.nearest_pt_on_app
        IN /\ (P[1] = c[1] /\ P[2] > c[2] => CsvDeg = 0 /\ CsvDir = "N")
           /\ (P[1] > c[1] /\ P[2] = c[2] => CsvDeg = 90000 /\ CsvDir = "E")
           /\ (P[1] = c[1] /\ P[2] < c[2] => CsvDeg = 180000 /\ CsvDir = "S")
           /\ (P[1] < c[1] /\ P[2] = c[2] => CsvDeg = 270000 /\ CsvDir = "W")
           /\ (project[1] = SiteSmall /\ remote.arc = <<1>>
                 => /\ c = <<0, 0>>
                    /\ figure.nearest_pt_on_api = <<0, 2000>>
                    /\ P = <<0, 500>>
                    /\ CsvDist = 1500
                    /\ CsvDeg = 0
                    /\ CsvDir = "N")

C9_Witness ==
    /\ figure.shown
    /\ project[1] = SiteSmall
    /\ remote.arc = <<1>>
    /\ figure.nearest_pt_on_app = <<0, 500>>
    /\ CsvDir = "N"

\* C10 as stated: a query answered with no feature leaves an empty
\* collection as the fetch result of the pair.
C10_EmptyAnswerStored ==
    (op \in Selecting /\ Contains(log, "No features returned from ArcGIS API."))
        => /\ CurKey \in DOMAIN api_pre_filtered
           /\ api_pre_filtered[CurKey].rows = <<>>

\* C10 amended: a query answered with no feature is not an error: the
\* handler logs the informational line, reports no failure, and stores no
\* collection for the pair (the cache is as it was).
C10_EmptyAnswerNotStored ==
    [][(op' \in Selecting /\ Contains(log', "No features returned from ArcGIS API."))
          => /\ api_pre_filtered' = api_pre_filtered
             /\ CurKey' \notin DOMAIN api_pre_filtered'
             /\ ~Contains(log', "ArcGIS REST pre-download failed")
             /\ ~Contains(log', "Preprocessing failed")
             /\ msgbox' = ""]_vars

C10_Witness ==
    /\ op \in Selecting
    /\ Contains(log, "No features returned from ArcGIS API.")
    /\ CurKey \notin DOMAIN api_pre_filtered

\* The handlers' fields of state t, the observations of the action reset:
\* the state the next user action starts from.
Settled(t) ==
    [t EXCEPT !.log = <<>>, !.net = <<>>, !.reads = 0, !.msgbox = "",
              !.csv = NoCsv, !.figure = NoFigure, !.presteps = <<>>]

\* C11: in every state of the dialog and for every pair the combos offer, a
\* run_prestep whose download request fails has issued that one request and
\* no other (no retry, no second service), logs the failure, leaves the
\* cache as it was, without an entry for the pair, and the run_analysis
\* that follows for the pair writes no file and opens no figure.
C11_FailedFetchStoresNothing ==
    dialog =>
        \A i \in 1..Len(combo_api.items), j \in 1..Len(combo_app.items) :
            LET s == [Cur EXCEPT !.combo_api.idx = i - 1, !.combo_app.idx = j - 1]
                t == run_prestep(s, IO(FALSE, FALSE, FALSE, FALSE, 1))
                u == run_analysis(Settled(t), IO(FALSE, FALSE, FALSE, TRUE, 1))
            IN t.net # <<>> =>
                  /\ Len(t.net) = 1
                  /\ t.net[1] \in Downloads
                  /\ \/ Contains(t.log, "WFS pre-download failed")
                     \/ Contains(t.log, "ArcGIS REST pre-download failed")
                  /\ t.api_pre_filtered = api_pre_filtered
                  /\ <<currentText(t.combo_api), t.combo_app.idx>>
                         \notin DOMAIN t.api_pre_filtered
                  /\ ~u.csv.written
                  /\ ~u.figure.shown
                  /\ u.msgbox = "Preprocessed data is empty."

C11_Witness ==
    /\ op \in Selecting
    /\ Len(presteps) = 1
    /\ presteps[1].requests = 1
    /\ Contains(log, "WFS pre-download failed")
    /\ CurKey \notin DOMAIN api_pre_filtered

\* The current selection names a layer that is neither in the WFS catalogue
\* nor a project layer with a FeatureServer or MapServer source.
UnsupportedSelection ==
    /\ combo_app.idx >= 0
    /\ combo_api.idx >= 0
    /\ currentText(combo_api) \notin DOMAIN wfs_layers_info
    /\ ~IsRestSource(CleanSource(SourceOf(api_layers, currentText(combo_api))))

\* The file of the selected application layer can be read.
AppReadable ==
    /\ combo_app.idx + 1 <= Len(shp_layers)
    /\ Readable(shp_layers[combo_app.idx + 1].source)

Served == IF currentText(combo_api) \in DOMAIN wfs_layers_info THEN remote.wfs ELSE remote.arc

\* The selected application layer is read and none of the features the
\* selected remote layer serves intersects its buffered area.
NoneInReach ==
    /\ combo_api.idx >= 0
    /\ AppReadable
    /\ \A i \in 1..Len(Served) :
          ~IntersectsBuffer(PoolPoint(Served[i]),
                            to_metric_gdf(ReadFile(shp_layers[combo_app.idx + 1].source)).gdf.geom)

\* C13: when no remote feature intersects the buffered region, the
\* prefetch raises nothing and what it stores is an empty collection;
\* run_analysis then shows a message, raises nothing, writes no file and
\* opens no figure.
C13_EmptyPrefilterNoResult ==
    /\ (op \in Selecting /\ NoneInReach)
          => /\ ~Contains(log, "Preprocessing failed")
             /\ CurKey \in DOMAIN api_pre_filtered => api_pre_filtered[CurKey].rows = <<>>
    /\ (op = "run_analysis" /\ NoneInReach)
          => /\ msgbox = "Preprocessed data is empty."
             /\ ~Contains(log, "Analysis failed")
             /\ ~csv.written
             /\ ~figure.shown

C13_Witness ==
    /\ op = "run_analysis"
    /\ NoneInReach
    /\ remote.wfs = <<10>>
    /\ CurKey \in DOMAIN api_pre_filtered
    /\ msgbox = "Preprocessed data is empty."

\* C14: a run_analysis in which the user declines the save dialog writes no
\* file, opens no figure, shows no message box, and leaves the cache, with
\* the columns and rows of every stored collection, and the dialog's lists
\* and selections as they were.
C14_DeclinedSaveNoEffects ==
    [][(op' = "run_analysis" /\ Contains(log', "CSV save cancelled by user."))
          => /\ ~csv'.written
             /\ ~figure'.shown
             /\ msgbox' = ""
             /\ api_pre_filtered' = api_pre_filtered
             /\ UNCHANGED <<combo_app, combo_api, shp_layers, api_layers,
                            wfs_layers_info, fields_list, connected>>]_vars

C14_Witness ==
    /\ op = "run_analysis"
    /\ Contains(log, "CSV save cancelled by user.")
    /\ CurKey \in DOMAIN api_pre_filtered
    /\ api_pre_filtered[CurKey].cols = FrameCols
    /\ ~csv.written

Failures ==
    {"Preprocessing failed", "WFS pre-download failed",
     "ArcGIS REST pre-download failed", "Analysis failed"}

\* A failure was raised, and caught, in the last user action.
Failed == \E i \in 1..Len(log) : log[i] \in Failures

\* C15: every failure raised in run_prestep or run_analysis is caught in
\* the handler and turned into a logged message and an interactive
\* notification.
C15_FailureLoggedAndNotified ==
    (op \in Selecting \cup {"run_analysis"} /\ Failed) => msgbox # ""

\* C16: _to_metric_gdf returns a collection tagged EPSG:29903 as it is,
\* with changed = False and nothing logged; so its second application, to
\* the output of a first one that left the collection in EPSG:29903, returns
\* that output with changed = False.  A collection without reference system
\* is tagged EPSG:4326, which is logged, and comes out in EPSG:29903 with
\* changed = True.
C16_NormalizerIdempotent ==
    /\ (gdf_out.calls >= 1 /\ gdf_in.crs = "EPSG:29903")
          => /\ gdf_out.gdf = gdf_in
             /\ ~gdf_out.changed
             /\ gdf_out.logs = <<>>
    /\ (gdf_out.calls = 1 /\ gdf_in.crs = "none")
          => /\ gdf_out.orig_crs = "EPSG:4326"
             /\ gdf_out.logs[1] = "Layer has no CRS; assumed EPSG:4326."
             /\ gdf_out.gdf.crs = "EPSG:29903"
             /\ gdf_out.gdf.geom # gdf_in.geom
             /\ gdf_out.changed

\* The second call, on the output of a call that reprojected (the log
\* keeps the line of the first call).
C16_Witness ==
    /\ gdf_out.calls = 2
    /\ Contains(log, "Layer has no CRS; assumed EPSG:4326.")
    /\ gdf_in = [crs |-> "EPSG:29903", geom |-> SmallSquare]
    /\ gdf_out.gdf = gdf_in
    /\ ~gdf_out.changed

\* The collection _to_metric_gdf hands back for the selected application
\* layer: what run_prestep buffers and run_analysis measures against.
AppFrame == to_metric_gdf(ReadFile(shp_layers[combo_app.idx + 1].source)).gdf

\* C17: every collection of the cache, and the application geometry the
\* last action buffered or measured against, is in EPSG:29903, also when
\* the normalization of the application layer failed.
C17_AllPlanar ==
    /\ \A k \in DOMAIN api_pre_filtered : api_pre_filtered[k].crs = "EPSG:29903"
    /\ (op \in Selecting \cup {"run_analysis"} /\ reads >= 1 /\ AppReadable)
          => AppFrame.crs = "EPSG:29903"

\* An invocation that found the lists built for its key: shp_layers holds
\* the application layer, and the name is a project layer of api_layers or
\* an entry of wfs_layers_info.
FullyBuilt(call) == call.has_app /\ (call.has_api \/ call.in_wfs)

\* C18: when populate_layers ends (first opening, re-opening, refresh) with
\* a current item in both combos, run_prestep has run, the layer lists
\* built, for the pair now selected.
C18_PopulatePrefetches ==
    (op \in {"plugin_run", "refresh"} /\ combo_app.idx >= 0 /\ combo_api.idx >= 0)
        => \E i \in 1..Len(presteps) : presteps[i].key = CurKey /\ FullyBuilt(presteps[i])

\* C19: every run_prestep that passes the index guard, also one fired while
\* populate_layers refills the combos, finds an element of shp_layers at
\* app_index and, for a selection that is not an entry of the WFS
\* catalogue, the project layer of that name in api_layers.
C19_ListsNotBehindCombos ==
    \A i \in 1..Len(presteps) :
        /\ presteps[i].has_app
        /\ (presteps[i].key[1] # WfsDisplayName => presteps[i].has_api)

\* The sector rule floor((d + 22.5) / 45) mod 8 applied to d.
SectorRule(d) == dirs8[(((d + HalfSector) \div SectorWidth) % 8) + 1]

\* C20: the exported label is the one the sector rule gives for the
\* exported bearing of the same line.
C20_LabelMatchesBearing == csv.written => CsvDir = SectorRule(CsvDeg)

=============================================================================
